---- MODULE Spec2Model ----
(***************************************************************************)
(* Model of the tile designer of src/src/App.tsx: the grid of 21 cells,    *)
(* the tool / swap-anchor controller, the keyboard handlers, the layout    *)
(* codec (encodeGridToUrl / decodeUrlToGrid) and the debounced URL update. *)
(*                                                                         *)
(* Representation.  A JavaScript string is a sequence of character codes   *)
(* (Latin-1, 0..255).  The null string reference is NullStr and the value  *)
(* `undefined` read out of a too-short array is Undefined; both are        *)
(* sequences holding one negative number, so they equal no string.  An     *)
(* array is a sequence; the source's 0-based index idx addresses element   *)
(* idx + 1.  A null number (swapAnchor) is Null.                           *)
(***************************************************************************)
EXTENDS Integers, Sequences, FiniteSets, TLC

\* ------------------------------------------------------------ characters
Comma == 44
Colon == 58
Minus == 45
Plus == 43
Slash == 47
Equals == 61
Zero == 48
Space == 32
UpperA == 65
LowerA == 97
LowerX == 120
UpperX == 88

NullStr == <<-1>>
Undefined == <<-2>>
Null == -1

\* ------------------------------------------------------------ the catalog
TILES == <<
  [id |-> <<98, 108, 97, 99, 107, 45, 118, 101, 114, 116>>],                      \* "black-vert"
  [id |-> <<98, 108, 97, 99, 107, 45, 100, 105, 97, 103>>],                       \* "black-diag"
  [id |-> <<111, 114, 97, 110, 103, 101, 45, 118, 101, 114, 116>>],               \* "orange-vert"
  [id |-> <<111, 114, 97, 110, 103, 101, 45, 100, 105, 97, 103>>],                \* "orange-diag"
  [id |-> <<108, 97, 118, 101, 110, 100, 101, 114, 45, 118, 101, 114, 116>>],     \* "lavender-vert"
  [id |-> <<108, 97, 118, 101, 110, 100, 101, 114, 45, 100, 105, 97, 103>>],      \* "lavender-diag"
  [id |-> <<103, 114, 101, 101, 110, 45, 118, 101, 114, 116>>],                   \* "green-vert"
  [id |-> <<103, 114, 101, 101, 110, 45, 100, 105, 97, 103>>],                    \* "green-diag"
  [id |-> <<103, 114, 97, 121, 45, 118, 101, 114, 116>>],                         \* "gray-vert"
  [id |-> <<103, 114, 97, 121, 45, 100, 105, 97, 103>>],                          \* "gray-diag"
  [id |-> <<114, 101, 100, 45, 118, 101, 114, 116>>],                             \* "red-vert"
  [id |-> <<114, 101, 100, 45, 100, 105, 97, 103>>],                              \* "red-diag"
  [id |-> <<102, 114, 97, 109, 101, 119, 111, 114, 107, 45, 108, 111, 103, 111>>],\* "framework-logo"
  [id |-> <<97, 109, 100>>],                                                      \* "amd"
  [id |-> <<116, 117, 120>>],                                                     \* "tux"
  [id |-> <<97, 114, 99, 104>>],                                                  \* "arch"
  [id |-> <<108, 105, 110, 117, 120, 45, 109, 105, 110, 116>>],                   \* "linux-mint"
  [id |-> <<104, 97, 112, 112, 121, 45, 101, 97, 114, 116, 104>>],                \* "happy-earth"
  [id |-> <<116, 111, 117, 99, 104, 45, 103, 114, 97, 115, 115>>],                \* "touch-grass"
  [id |-> <<114, 97, 105, 110, 98, 111, 119, 45, 104, 101, 97, 114, 116>>],       \* "rainbow-heart"
  [id |-> <<98, 108, 97, 110, 107>>]                                              \* "blank"
>>

catalog == TILES

blank == <<98, 108, 97, 110, 107>>

CatalogIds == {catalog[k].id : k \in 1..Len(catalog)}

GridLength == 21

rotations == <<0, 90, 180, 270>>

Rotations == {rotations[k] : k \in 1..Len(rotations)}

\* ------------------------------------------------------------ JavaScript primitives
\* a % b of JavaScript: the remainder takes the sign of the dividend.
JsRem(a, b) == IF a >= 0 THEN a % b ELSE -((-a) % b)

RECURSIVE DigitsOf(_)
DigitsOf(n) == IF n < 10 THEN <<Zero + n>> ELSE DigitsOf(n \div 10) \o <<Zero + (n % 10)>>

\* `${n}` for an integer n.
NumToStr(n) == IF n < 0 THEN <<Minus>> \o DigitsOf(-n) ELSE DigitsOf(n)

RECURSIVE join(_, _)
join(parts, sep) ==
  IF Len(parts) = 0 THEN <<>>
  ELSE IF Len(parts) = 1 THEN parts[1]
  ELSE parts[1] \o <<sep>> \o join(Tail(parts), sep)

RECURSIVE split(_, _)
split(s, sep) ==
  LET hits == {i \in 1..Len(s) : s[i] = sep}
  IN  IF hits = {} THEN <<s>>
      ELSE LET k == CHOOSE i \in hits : \A j \in hits : i <= j
           IN  <<SubSeq(s, 1, k - 1)>> \o split(SubSeq(s, k + 1, Len(s)), sep)

\* The 64-symbol alphabet of btoa / atob: A-Z a-z 0-9 + /
B64Char(v) ==
  IF v < 26 THEN UpperA + v
  ELSE IF v < 52 THEN LowerA + (v - 26)
  ELSE IF v < 62 THEN Zero + (v - 52)
  ELSE IF v = 62 THEN Plus ELSE Slash

B64Val(c) ==
  IF c >= UpperA /\ c < UpperA + 26 THEN c - UpperA
  ELSE IF c >= LowerA /\ c < LowerA + 26 THEN 26 + (c - LowerA)
  ELSE IF c >= Zero /\ c < Zero + 10 THEN 52 + (c - Zero)
  ELSE IF c = Plus THEN 62
  ELSE IF c = Slash THEN 63
  ELSE -1

Pow(b, e) == IF e = 0 THEN 1 ELSE IF e = 1 THEN b ELSE IF e = 2 THEN b * b ELSE b * b * b

\* btoa(s): every 3 bytes give 4 symbols of 6 bits; a last group of 1 or 2
\* bytes is padded with '='.
btoa(s) ==
  LET n == Len(s)
      sym(k) ==
        LET q3 == 3 * ((k - 1) \div 4)
            pos == (k - 1) % 4
        IN  IF pos = 0 THEN B64Char(s[q3 + 1] \div 4)
            ELSE IF pos = 1
            THEN B64Char((s[q3 + 1] % 4) * 16 + (IF q3 + 2 <= n THEN s[q3 + 2] \div 16 ELSE 0))
            ELSE IF pos = 2
            THEN IF q3 + 2 > n THEN Equals
                 ELSE B64Char((s[q3 + 2] % 16) * 4
                              + (IF q3 + 3 <= n THEN s[q3 + 3] \div 64 ELSE 0))
            ELSE IF q3 + 3 > n THEN Equals ELSE B64Char(s[q3 + 3] % 64)
  IN  [k \in 1..(4 * ((n + 2) \div 3)) |-> sym(k)]

IsAsciiWhitespace(c) == c \in {9, 10, 12, 13, Space}

NotAsciiWhitespace(c) == ~IsAsciiWhitespace(c)

\* atob(t), the forgiving-base64 decode: ASCII whitespace is removed, up to
\* two '=' are removed from a length that is a multiple of 4, a length of
\* 1 mod 4 or a symbol outside the alphabet throws.
atob(t) ==
  LET w == SelectSeq(t, NotAsciiWhitespace)
      lw == Len(w)
      pad == IF lw > 0 /\ lw % 4 = 0
             THEN IF w[lw] = Equals
                  THEN IF w[lw - 1] = Equals THEN 2 ELSE 1
                  ELSE 0
             ELSE 0
      d == SubSeq(w, 1, lw - pad)
      n == Len(d)
      val(i) == IF i <= n THEN B64Val(d[i]) ELSE 0
      byte(j) ==
        LET q == (j - 1) \div 3
            pos == (j - 1) % 3
            v == val(4 * q + 1) * 262144 + val(4 * q + 2) * 4096
                 + val(4 * q + 3) * 64 + val(4 * q + 4)
        IN  (v \div Pow(256, 2 - pos)) % 256
  IN  IF n % 4 = 1 \/ \E i \in 1..n : B64Val(d[i]) = -1
      THEN [threw |-> TRUE, value |-> <<>>]
      ELSE [threw |-> FALSE, value |-> [j \in 1..((n * 6) \div 8) |-> byte(j)]]

IsDigit(c, radix) ==
  \/ c >= Zero /\ c < Zero + 10
  \/ radix = 16 /\ c >= LowerA /\ c < LowerA + 6
  \/ radix = 16 /\ c >= UpperA /\ c < UpperA + 6

DigitVal(c) ==
  IF c >= Zero /\ c < Zero + 10 THEN c - Zero
  ELSE IF c >= LowerA THEN 10 + (c - LowerA) ELSE 10 + (c - UpperA)

IsStrWhiteSpace(c) == c \in {9, 10, 11, 12, 13, Space, 160}

RECURSIVE TrimStart(_)
TrimStart(s) == IF Len(s) > 0 /\ IsStrWhiteSpace(s[1]) THEN TrimStart(Tail(s)) ELSE s

RECURSIVE DigitsValue(_, _, _)
DigitsValue(s, radix, acc) ==
  IF Len(s) > 0 /\ IsDigit(s[1], radix)
  THEN DigitsValue(Tail(s), radix, acc * radix + DigitVal(s[1]))
  ELSE acc

\* parseInt(s) with no radix: leading white space, a sign, a 0x prefix, then
\* the longest run of digits; NaN when there is none.  parseInt(undefined)
\* parses the text "undefined" and is NaN.
parseInt(s) ==
  IF s = Undefined \/ s = NullStr THEN [nan |-> TRUE, val |-> 0]
  ELSE
  LET t == TrimStart(s)
      neg == Len(t) > 0 /\ t[1] = Minus
      u == IF Len(t) > 0 /\ t[1] \in {Minus, Plus} THEN Tail(t) ELSE t
      hex == Len(u) >= 2 /\ u[1] = Zero /\ u[2] \in {LowerX, UpperX}
      radix == IF hex THEN 16 ELSE 10
      z == IF hex THEN SubSeq(u, 3, Len(u)) ELSE u
      mag == DigitsValue(z, radix, 0)
  IN  IF Len(z) = 0 \/ ~IsDigit(z[1], radix) THEN [nan |-> TRUE, val |-> 0]
      ELSE [nan |-> FALSE, val |-> IF neg THEN -mag ELSE mag]

\* x || 0 for a number x: NaN and 0 are falsy.
NumOrZero(x) == IF x.nan THEN 0 ELSE x.val

\* s || "blank" for a string s: the empty string is falsy.
StrOrBlank(s) == IF s = <<>> \/ s = Undefined THEN blank ELSE s

\* ------------------------------------------------------------ the grid
makeEmptyGrid == [i \in 1..GridLength |-> [tileId |-> blank, rot |-> 0]]

\* ------------------------------------------------------------ the layout codec
\* Mutant: the cell is written with ',' between tile and rotation.
CellToStr_CommaSep(cell) == cell.tileId \o <<Comma>> \o NumToStr(cell.rot)

CellToStr(cell) == cell.tileId \o <<Colon>> \o NumToStr(cell.rot)

encodeGridToUrl(g) ==
  LET gridData == join([i \in 1..Len(g) |-> CellToStr(g[i])], Comma)
  IN  btoa(gridData)

StrToCell(cellStr) ==
  LET parts == split(cellStr, Colon)
      tileId == parts[1]
      rot == IF Len(parts) >= 2 THEN parts[2] ELSE Undefined
  IN  [tileId |-> StrOrBlank(tileId), rot |-> NumOrZero(parseInt(rot))]

NullGrid == <<>>

\* Mutant: the length of the decoded array is not checked.
decodeUrlToGrid_NoLengthCheck(encodedData) ==
  IF encodedData = NullStr \/ encodedData = <<>> THEN NullGrid
  ELSE LET a == atob(encodedData)
       IN  IF a.threw THEN NullGrid
           ELSE LET strs == split(a.value, Comma)
                IN  [i \in 1..Len(strs) |-> StrToCell(strs[i])]

decodeUrlToGrid(encodedData) ==
  IF encodedData = NullStr \/ encodedData = <<>> THEN NullGrid
  ELSE LET a == atob(encodedData)
       IN  IF a.threw THEN NullGrid
           ELSE LET strs == split(a.value, Comma)
                    cells == [i \in 1..Len(strs) |-> StrToCell(strs[i])]
                IN  IF Len(cells) = GridLength THEN cells ELSE NullGrid

\* ------------------------------------------------------------ bounds
\* Cells 0..MaxCell receive clicks.
MaxCell == 1
\* User events are handled while fewer than MaxSteps events have been handled.
MaxSteps == 3

ClickCells == 0..MaxCell

\* ------------------------------------------------------------ state
VARIABLES
  pc,              \* "mount" before the effects of the first render have run, then "ready"
  url,             \* the raw value of the layout query parameter (NullStr: absent)
  grid,            \* useState(makeEmptyGrid())
  selectedTileId,  \* useState(TILES[1]?.id || "blank")
  tool,            \* useState("paint")
  swapAnchor,      \* useState<number | null>(null)
  modifierTool,    \* useState<string | null>(null), "null" for null
  timeouts,        \* pending setTimeout callbacks of the URL effect, each with the grid it closed over
  anchorBy,        \* history: the branch that set the pending anchor ("none", "tool", "modifier")
  last,            \* history: the event whose handler has just returned ("none" once the loop waits again)
  prev,            \* history: the state that handler started from
  steps            \* number of events handled after the mount, counted up to MaxSteps

vars == <<pc, url, grid, selectedTileId, tool, swapAnchor, modifierTool,
          timeouts, anchorBy, last, prev, steps>>

\* The state the handlers read and write; gridSet tells that setGrid ran and
\* out is what the handler shows to the user (an alert, a download).
Cur == [grid |-> grid, selectedTileId |-> selectedTileId, tool |-> tool,
        swapAnchor |-> swapAnchor, modifierTool |-> modifierTool,
        anchorBy |-> anchorBy, url |-> url, timeouts |-> timeouts, gridSet |-> FALSE,
        out |-> ""]

\* env is what the browser answers to the calls of the handler, out what the
\* handler showed.
Event(kind) == [kind |-> kind, idx |-> Null, shiftKey |-> FALSE, ctrlKey |-> FALSE,
                metaKey |-> FALSE, key |-> "", inInput |-> FALSE, tileId |-> <<>>,
                env |-> <<>>, out |-> ""]

\* ------------------------------------------------------------ grid operations
\* Mutant: the repainted cell keeps its rotation.
applyPaint_KeepRot(st, idx) ==
  [st EXCEPT !.grid = [i \in 1..Len(st.grid) |->
                         IF i = idx + 1
                         THEN [st.grid[i] EXCEPT !.tileId = st.selectedTileId]
                         ELSE st.grid[i]],
             !.gridSet = TRUE]

applyPaint(st, idx) ==
  [st EXCEPT !.grid = [i \in 1..Len(st.grid) |->
                         IF i = idx + 1
                         THEN [st.grid[i] EXCEPT !.tileId = st.selectedTileId, !.rot = 0]
                         ELSE st.grid[i]],
             !.gridSet = TRUE]

applyRotate(st, idx) ==
  [st EXCEPT !.grid = [i \in 1..Len(st.grid) |->
                         IF i = idx + 1
                         THEN [st.grid[i] EXCEPT !.rot = JsRem(st.grid[i].rot + 90, 360)]
                         ELSE st.grid[i]],
             !.gridSet = TRUE]

\* Mutant: the exchange without the temporary.
swapCells_NoTmp(g, idx, anchor) ==
  IF idx + 1 \in DOMAIN g /\ anchor + 1 \in DOMAIN g
  THEN [g EXCEPT ![idx + 1] = g[anchor + 1]]
  ELSE g

\* Mutant: only next[swapAnchor] is written.
swapCells_AnchorOnly(g, idx, anchor) ==
  IF idx + 1 \in DOMAIN g /\ anchor + 1 \in DOMAIN g
  THEN [g EXCEPT ![anchor + 1] = g[idx + 1]]
  ELSE g

\* The updater of both swap branches: exchange next[idx] and next[swapAnchor]
\* when both exist.
swapCells(g, idx, anchor) ==
  IF idx + 1 \in DOMAIN g /\ anchor + 1 \in DOMAIN g
  THEN [g EXCEPT ![idx + 1] = g[anchor + 1], ![anchor + 1] = g[idx + 1]]
  ELSE g

\* Mutant: the click on the anchor itself does not clear the anchor.
swapStep_NoCancel(st, idx, by) ==
  IF st.swapAnchor = Null
  THEN [st EXCEPT !.swapAnchor = idx, !.anchorBy = by]
  ELSE IF st.swapAnchor = idx
  THEN st
  ELSE [st EXCEPT !.grid = swapCells(st.grid, idx, st.swapAnchor), !.gridSet = TRUE,
                  !.swapAnchor = Null, !.anchorBy = "none"]

\* One step of the swap protocol, written twice in handleCellClick; by names
\* the branch for the history.
swapStep(st, idx, by) ==
  IF st.swapAnchor = Null
  THEN [st EXCEPT !.swapAnchor = idx, !.anchorBy = by]
  ELSE IF st.swapAnchor = idx
  THEN [st EXCEPT !.swapAnchor = Null, !.anchorBy = "none"]
  ELSE [st EXCEPT !.grid = swapCells(st.grid, idx, st.swapAnchor), !.gridSet = TRUE,
                  !.swapAnchor = Null, !.anchorBy = "none"]

\* Mutant: the paint tool is dispatched before the modifiers are looked at.
handleCellClick_ToolFirst(st, idx, event) ==
  IF st.tool = "paint" THEN applyPaint(st, idx)
  ELSE IF event.shiftKey THEN applyRotate(st, idx)
  ELSE IF event.ctrlKey \/ event.metaKey THEN swapStep(st, idx, "modifier")
  ELSE IF st.tool = "rotate" THEN applyRotate(st, idx)
  ELSE IF st.tool = "swap" THEN swapStep(st, idx, "tool")
  ELSE st

\* Mutant: the click is dispatched on the modifier-tool indicator.
handleCellClick_ByIndicator(st, idx, event) ==
  IF st.modifierTool = "rotate" THEN applyRotate(st, idx)
  ELSE IF st.modifierTool = "swap" THEN swapStep(st, idx, "modifier")
  ELSE IF st.tool = "paint" THEN applyPaint(st, idx)
  ELSE IF st.tool = "rotate" THEN applyRotate(st, idx)
  ELSE IF st.tool = "swap" THEN swapStep(st, idx, "tool")
  ELSE st

\* Mutant: metaKey is not looked at.
handleCellClick_NoMeta(st, idx, event) ==
  IF event.shiftKey THEN applyRotate(st, idx)
  ELSE IF event.ctrlKey THEN swapStep(st, idx, "modifier")
  ELSE IF st.tool = "paint" THEN applyPaint(st, idx)
  ELSE IF st.tool = "rotate" THEN applyRotate(st, idx)
  ELSE IF st.tool = "swap" THEN swapStep(st, idx, "tool")
  ELSE st

handleCellClick(st, idx, event) ==
  IF event.shiftKey THEN applyRotate(st, idx)
  ELSE IF event.ctrlKey \/ event.metaKey THEN swapStep(st, idx, "modifier")
  ELSE IF st.tool = "paint" THEN applyPaint(st, idx)
  ELSE IF st.tool = "rotate" THEN applyRotate(st, idx)
  ELSE IF st.tool = "swap" THEN swapStep(st, idx, "tool")
  ELSE st

\* draw[i] holds the two values of Math.floor(Math.random() * length) of cell i.
randomizeGrid(st, draw) ==
  [st EXCEPT !.grid = [i \in 1..GridLength |->
                         [tileId |-> catalog[draw[i].tile + 1].id,
                          rot |-> rotations[draw[i].rot + 1]]],
             !.gridSet = TRUE]

\* The draws Randomize is run with.
RandomDraws ==
  {[i \in 1..GridLength |-> [tile |-> (5 * i) % Len(catalog), rot |-> i % Len(rotations)]]}

\* Mutant: Clear also drops the pending anchor.
clearGrid_DropsAnchor(st) ==
  [st EXCEPT !.grid = makeEmptyGrid, !.gridSet = TRUE, !.swapAnchor = Null, !.anchorBy = "none"]

clearGrid(st) == [st EXCEPT !.grid = makeEmptyGrid, !.gridSet = TRUE]

\* ------------------------------------------------------------ export and share
\* Mutant: a failed rasterization resets the grid.
downloadPNG_ResetOnFailure(st, env) ==
  IF env = "no-target" THEN [st EXCEPT !.out = "Error: Unable to capture design for export"]
  ELSE IF env = "toPng-throws"
  THEN [st EXCEPT !.grid = makeEmptyGrid, !.gridSet = TRUE, !.out = "PNG export failed"]
  ELSE [st EXCEPT !.out = "download framework-tiles-design.png"]

\* env: shotRef.current is null ("no-target"), htmlToImage.toPng rejects
\* ("toPng-throws") or resolves ("toPng-ok").  The continuation after the
\* await reads and writes no state of the component.
downloadPNG(st, env) ==
  IF env = "no-target" THEN [st EXCEPT !.out = "Error: Unable to capture design for export"]
  ELSE IF env = "toPng-throws" THEN [st EXCEPT !.out = "PNG export failed"]
  ELSE [st EXCEPT !.out = "download framework-tiles-design.png"]

\* exec: document.execCommand("copy") returns true ("copied"), returns false
\* ("not-copied") or throws ("throws").
fallbackCopyToClipboard(st, exec) ==
  IF exec = "copied" THEN [st EXCEPT !.out = "Share URL copied to clipboard!"]
  ELSE [st EXCEPT !.out = "Copy failed. Please copy this URL manually"]

\* clip: navigator.clipboard.writeText resolves ("writeText-ok"), rejects
\* ("writeText-rejects") or is absent ("absent").  The text that is copied,
\* origin + pathname + "?layout=" + encodeGridToUrl(), leaves the page: no
\* state of the component holds it.
shareLayout(st, clip, exec) ==
  IF clip = "writeText-ok" THEN [st EXCEPT !.out = "Share URL copied to clipboard!"]
  ELSE fallbackCopyToClipboard(st, exec)

ExportOutcomes == {"no-target", "toPng-throws", "toPng-ok"}

\* Every tier of the share: the clipboard API, the textarea fallback after a
\* rejection or without the API, and its failure by result and by exception.
ShareOutcomes ==
  { <<"writeText-ok", "copied">>, <<"writeText-rejects", "copied">>,
    <<"writeText-rejects", "not-copied">>, <<"absent", "copied">>, <<"absent", "throws">> }

\* ------------------------------------------------------------ tool selection
\* The tool buttons and the P / S / R shortcuts.
selectTool(st, t) == [st EXCEPT !.tool = t, !.swapAnchor = Null, !.anchorBy = "none"]

\* A palette button.
pickTile(st, id) == [st EXCEPT !.selectedTileId = id, !.tool = "paint"]

\* The palette button that is clicked: "amd".
PaletteTiles == {TILES[14].id}

\* ------------------------------------------------------------ keyboard
toLowerCase(key) ==
  IF key = "P" THEN "p" ELSE IF key = "S" THEN "s" ELSE IF key = "R" THEN "r" ELSE key

\* Mutant: the target of the event is not looked at.
handleKeyDown_AnyTarget(st, event) ==
  LET k == toLowerCase(event.key)
      a == IF k = "p" THEN selectTool(st, "paint")
           ELSE IF k = "s" THEN selectTool(st, "swap")
           ELSE IF k = "r" THEN selectTool(st, "rotate")
           ELSE st
  IN  IF event.shiftKey THEN [a EXCEPT !.modifierTool = "rotate"]
      ELSE IF event.ctrlKey \/ event.metaKey THEN [a EXCEPT !.modifierTool = "swap"]
      ELSE a

handleKeyDown(st, event) ==
  LET k == toLowerCase(event.key)
      a == IF ~event.inInput /\ k = "p" THEN selectTool(st, "paint")
           ELSE IF ~event.inInput /\ k = "s" THEN selectTool(st, "swap")
           ELSE IF ~event.inInput /\ k = "r" THEN selectTool(st, "rotate")
           ELSE st
  IN  IF event.shiftKey THEN [a EXCEPT !.modifierTool = "rotate"]
      ELSE IF event.ctrlKey \/ event.metaKey THEN [a EXCEPT !.modifierTool = "swap"]
      ELSE a

\* Mutant: releasing the modifiers leaves the pending anchor.
handleKeyUp_KeepAnchor(st, event) ==
  IF ~event.shiftKey /\ ~event.ctrlKey /\ ~event.metaKey
  THEN [st EXCEPT !.modifierTool = "null"]
  ELSE IF event.shiftKey THEN [st EXCEPT !.modifierTool = "rotate"]
  ELSE [st EXCEPT !.modifierTool = "swap"]

\* handleKeyUp reads the swapAnchor of the render whose effect registered it;
\* the effect depends on [swapAnchor], so that is the current one.
handleKeyUp(st, event) ==
  IF ~event.shiftKey /\ ~event.ctrlKey /\ ~event.metaKey
  THEN IF st.swapAnchor # Null
       THEN [st EXCEPT !.modifierTool = "null", !.swapAnchor = Null, !.anchorBy = "none"]
       ELSE [st EXCEPT !.modifierTool = "null"]
  ELSE IF event.shiftKey THEN [st EXCEPT !.modifierTool = "rotate"]
  ELSE [st EXCEPT !.modifierTool = "swap"]

KeyEvent(kind, key, inInput, sh, ct, me) ==
  [Event(kind) EXCEPT !.key = key, !.inInput = inInput,
                      !.shiftKey = sh, !.ctrlKey = ct, !.metaKey = me]

\* The key presses: the letters alone, Shift+P, Ctrl+S, each modifier alone
\* and a second modifier joining a held one; in a text input and outside.
KeyDownEvents ==
  {KeyEvent("keydown", k, inp, FALSE, FALSE, FALSE) : k \in {"p", "s", "r", "x"}, inp \in BOOLEAN}
  \cup {KeyEvent("keydown", "P", inp, TRUE, FALSE, FALSE) : inp \in BOOLEAN}
  \cup {KeyEvent("keydown", "s", FALSE, FALSE, TRUE, FALSE)}
  \cup {KeyEvent("keydown", "Shift", inp, TRUE, FALSE, FALSE) : inp \in BOOLEAN}
  \cup {KeyEvent("keydown", "Control", inp, FALSE, TRUE, FALSE) : inp \in BOOLEAN}
  \cup {KeyEvent("keydown", "Meta", inp, FALSE, FALSE, TRUE) : inp \in BOOLEAN}
  \cup {KeyEvent("keydown", "Shift", FALSE, TRUE, TRUE, FALSE),
        KeyEvent("keydown", "Control", FALSE, TRUE, TRUE, FALSE)}

\* The key releases: a key released with no modifier left held, and with one
\* still held.
KeyUpEvents ==
  {KeyEvent("keyup", k, FALSE, FALSE, FALSE, FALSE) : k \in {"x", "p", "Shift", "Control", "Meta"}}
  \cup {KeyEvent("keyup", "x", TRUE, FALSE, FALSE, FALSE),
        KeyEvent("keyup", "Shift", FALSE, FALSE, TRUE, FALSE),
        KeyEvent("keyup", "Control", FALSE, TRUE, FALSE, FALSE),
        KeyEvent("keyup", "x", FALSE, TRUE, FALSE, FALSE),
        KeyEvent("keyup", "x", FALSE, FALSE, FALSE, TRUE)}

\* ------------------------------------------------------------ URL
\* URLSearchParams.get on the raw value: '+' reads as a space.  The raw values
\* of LayoutParams hold no '%', '&' or '#'.
QueryValue(raw) ==
  IF raw = NullStr THEN NullStr
  ELSE [i \in 1..Len(raw) |-> IF raw[i] = Plus THEN Space ELSE raw[i]]

\* Mutant: the decoded grid is installed without the null check.
loadLayout_NoNullCheck(st, layoutParam) ==
  [st EXCEPT !.grid = decodeUrlToGrid(layoutParam), !.gridSet = TRUE]

\* The mount effect: a decoded grid replaces the grid, null leaves it.
loadLayout(st, layoutParam) ==
  LET decodedGrid == decodeUrlToGrid(layoutParam)
  IN  IF decodedGrid # NullGrid THEN [st EXCEPT !.grid = decodedGrid, !.gridSet = TRUE]
      ELSE st

\* Mutant: the cleanup clears the pending timeout and the effect schedules
\* only when none was pending.
urlEffect_NoReschedule(ts, g) ==
  IF Len(ts) > 0 THEN SubSeq(ts, 1, Len(ts) - 1) ELSE Append(ts, [grid |-> g])

\* Mutant: no cleanup, the timeout of the previous run stays pending.
urlEffect_NoCleanup(ts, g) == Append(ts, [grid |-> g])

\* The effect on [grid]: its cleanup clears the timeout of the previous run,
\* then it schedules a callback that closes over the grid of this render.
urlEffect(ts, g) ==
  LET cleared == IF Len(ts) > 0 THEN SubSeq(ts, 1, Len(ts) - 1) ELSE ts
  IN  Append(cleared, [grid |-> g])

\* ------------------------------------------------------------ the URLs the page is opened with
CellStrings(strs, n) == [i \in 1..n |-> IF i <= Len(strs) THEN strs[i] ELSE blank \o <<Colon, Zero>>]

\* A grid of catalog tiles with every rotation.
SampleGrid == [i \in 1..GridLength |-> [tileId |-> catalog[i].id, rot |-> rotations[(i % 4) + 1]]]

\* "tux:-180", "zz:45", "amd", ":90", "blank: 270x", "arch:0x5a:1"
LooseCells == << <<116, 117, 120, 58, 45, 49, 56, 48>>, <<122, 122, 58, 52, 53>>,
                 <<97, 109, 100>>, <<58, 57, 48>>,
                 <<98, 108, 97, 110, 107, 58, 32, 50, 55, 48, 120>>,
                 <<97, 114, 99, 104, 58, 48, 120, 53, 97, 58, 49>> >>

TokenOfCells(strs, n) == btoa(join(CellStrings(strs, n), Comma))

LayoutParams ==
  { NullStr,                               \* no layout parameter
    <<>>,                                  \* layout=
    <<33, 33, 33, 33>>,                    \* layout=!!!!
    TokenOfCells(<<>>, GridLength - 1),    \* 20 cells
    TokenOfCells(<<>>, GridLength + 1),    \* 22 cells
    encodeGridToUrl(SampleGrid),
    TokenOfCells(LooseCells, GridLength) }

\* ------------------------------------------------------------ behaviour
Init ==
  /\ pc = "mount"
  /\ url \in LayoutParams
  /\ grid = makeEmptyGrid
  /\ selectedTileId = TILES[2].id
  /\ tool = "paint"
  /\ swapAnchor = Null
  /\ modifierTool = "null"
  /\ timeouts = <<>>
  /\ anchorBy = "none"
  /\ last = Event("none")
  /\ prev = Cur
  /\ steps = 0

\* Install the state n that a handler computed for event ev.
Commit(n, ev) ==
  /\ grid' = n.grid
  /\ selectedTileId' = n.selectedTileId
  /\ tool' = n.tool
  /\ swapAnchor' = n.swapAnchor
  /\ modifierTool' = n.modifierTool
  /\ anchorBy' = n.anchorBy
  /\ last' = ev
  /\ prev' = Cur

\* The effects of the first render: the layout is loaded and the URL effect
\* runs for the initial grid; a loaded grid renders again and re-runs it.
Mount ==
  /\ pc = "mount"
  /\ pc' = "ready"
  /\ LET n == loadLayout(Cur, QueryValue(url))
     IN  /\ Commit(n, Event("mount"))
         /\ timeouts' = IF n.gridSet THEN urlEffect(urlEffect(timeouts, grid), n.grid)
                        ELSE urlEffect(timeouts, grid)
  /\ UNCHANGED <<url, steps>>

\* A user event is handled to completion, then the render it caused runs the
\* URL effect when setGrid ran.
Handle(n, ev) ==
  /\ pc = "ready"
  /\ last.kind = "none"
  /\ steps < MaxSteps
  /\ steps' = steps + 1
  /\ Commit(n, ev)
  /\ timeouts' = IF n.gridSet THEN urlEffect(timeouts, n.grid) ELSE timeouts
  /\ UNCHANGED <<pc, url>>

CellClick ==
  \E idx \in ClickCells, sh \in BOOLEAN, ct \in BOOLEAN, me \in BOOLEAN :
    LET event == [Event("click") EXCEPT !.idx = idx, !.shiftKey = sh,
                                        !.ctrlKey = ct, !.metaKey = me]
    IN  Handle(handleCellClick(Cur, idx, event), event)

ToolButton ==
  \E t \in {"paint", "swap", "rotate"} :
    Handle(selectTool(Cur, t), [Event("tool") EXCEPT !.key = t])

PaletteButton ==
  \E id \in PaletteTiles :
    Handle(pickTile(Cur, id), [Event("palette") EXCEPT !.tileId = id])

ClearButton == Handle(clearGrid(Cur), Event("clear"))

RandomButton ==
  \E draw \in RandomDraws : Handle(randomizeGrid(Cur, draw), Event("random"))

ExportButton ==
  \E env \in ExportOutcomes :
    LET n == downloadPNG(Cur, env)
    IN  Handle(n, [Event("export") EXCEPT !.env = <<env>>, !.out = n.out])

ShareButton ==
  \E env \in ShareOutcomes :
    LET n == shareLayout(Cur, env[1], env[2])
    IN  Handle(n, [Event("share") EXCEPT !.env = env, !.out = n.out])

KeyDown == \E event \in KeyDownEvents : Handle(handleKeyDown(Cur, event), event)

KeyUp == \E event \in KeyUpEvents : Handle(handleKeyUp(Cur, event), event)

\* The debounce timer fires: encodeGridToUrl() of the render that scheduled
\* it, then history.replaceState.
TimerFire ==
  /\ pc = "ready"
  /\ last.kind = "none"
  /\ Len(timeouts) > 0
  /\ url' = encodeGridToUrl(Head(timeouts).grid)
  /\ timeouts' = Tail(timeouts)
  /\ last' = Event("timer")
  /\ prev' = Cur
  /\ steps' = IF steps < MaxSteps THEN steps + 1 ELSE steps
  /\ UNCHANGED <<pc, grid, selectedTileId, tool, swapAnchor, modifierTool, anchorBy>>

\* The handler has returned and the event loop waits for the next event: the
\* history of the last event is dropped.
Idle ==
  /\ last.kind # "none"
  /\ last' = Event("none")
  /\ prev' = Cur
  /\ UNCHANGED <<pc, url, grid, selectedTileId, tool, swapAnchor, modifierTool,
                 timeouts, anchorBy, steps>>

Next ==
  \/ Mount
  \/ CellClick
  \/ ToolButton
  \/ PaletteButton
  \/ ClearButton
  \/ RandomButton
  \/ ExportButton
  \/ ShareButton
  \/ KeyDown
  \/ KeyUp
  \/ TimerFire
  \/ Idle

Spec == Init /\ [][Next]_vars

\* The steps of Mount and of TimerFire, told by what they alone do to pc and
\* to last: a step of Next is a MountStep exactly when it is a Mount step and
\* a TimerStep exactly when it is a TimerFire step, and each is enabled
\* exactly when that action is.
MountStep == pc = "mount" /\ pc' = "ready"

TimerStep ==
  /\ pc = "ready"
  /\ last.kind = "none"
  /\ Len(timeouts) > 0
  /\ last' = Event("timer")

\* The scheduling the browser guarantees: the effects of the first render
\* run, a handler returns, and a pending timeout that is not cleared fires.
\* The page is opened without a layout parameter or with the token of a grid.
LiveParams == {NullStr, encodeGridToUrl(SampleGrid)}

InitLive == Init /\ url \in LiveParams

SpecLive ==
  /\ InitLive
  /\ [][Next]_vars
  /\ WF_pc(MountStep)
  /\ WF_vars(Idle)
  /\ WF_last(TimerStep)

\* ------------------------------------------------------------ the codec on its own
\* encodeGridToUrl and decodeUrlToGrid applied in turn to grids of catalog
\* tiles with rotations of {0, 90, 180, 270}: pc runs "encode", "decode",
\* "decoded"; prev keeps the grid that was encoded.
CodecGrids ==
  {[i \in 1..GridLength |-> [tileId |-> catalog[((a + 4 * i) % Len(catalog)) + 1].id,
                             rot |-> rotations[((b + i) % Len(rotations)) + 1]]] :
     a \in 0..(Len(catalog) - 1), b \in 0..(Len(rotations) - 1)}
  \cup {[i \in 1..GridLength |-> [tileId |-> catalog[a].id, rot |-> rotations[b]]] :
          a \in 1..Len(catalog), b \in 1..Len(rotations)}

InitCodec ==
  /\ pc = "encode"
  /\ grid \in CodecGrids
  /\ url = NullStr
  /\ selectedTileId = TILES[2].id
  /\ tool = "paint"
  /\ swapAnchor = Null
  /\ modifierTool = "null"
  /\ timeouts = <<>>
  /\ anchorBy = "none"
  /\ last = Event("none")
  /\ prev = Cur
  /\ steps = 0

EncodeStep ==
  /\ pc = "encode"
  /\ pc' = "decode"
  /\ url' = encodeGridToUrl(grid)
  /\ last' = Event("encode")
  /\ prev' = Cur
  /\ UNCHANGED <<grid, selectedTileId, tool, swapAnchor, modifierTool, timeouts, anchorBy, steps>>

DecodeStep ==
  /\ pc = "decode"
  /\ pc' = "decoded"
  /\ grid' = decodeUrlToGrid(url)
  /\ last' = Event("decode")
  /\ UNCHANGED <<url, selectedTileId, tool, swapAnchor, modifierTool, timeouts, anchorBy, prev, steps>>

NextCodec == EncodeStep \/ DecodeStep

SpecCodec == InitCodec /\ [][NextCodec]_vars

\* ------------------------------------------------------------ claims
NoModifier(e) == ~e.shiftKey /\ ~e.ctrlKey /\ ~e.metaKey

\* g is h with the cells of the 0-based indices i and j exchanged.
Exchanged(g, h, i, j) ==
  /\ Len(g) = Len(h)
  /\ g[i + 1] = h[j + 1]
  /\ g[j + 1] = h[i + 1]
  /\ \A k \in 1..Len(h) : k \notin {i + 1, j + 1} => g[k] = h[k]

\* The number of cells the raw layout value t decodes to: -1 when it is
\* absent or atob throws, else the number of comma-separated pieces.
TokenCells(t) ==
  IF t = NullStr THEN -1
  ELSE LET a == atob(QueryValue(t))
       IN  IF a.threw THEN -1
           ELSE 1 + Cardinality({i \in 1..Len(a.value) : a.value[i] = Comma})

\* C1: for every grid of 21 cells of catalog tiles with rotations of
\* {0, 90, 180, 270}, decodeUrlToGrid(encodeGridToUrl(grid)) is the grid again,
\* cell by cell.
C1_RoundTrip ==
  pc = "decoded" =>
    /\ Len(grid) = GridLength
    /\ \A i \in 1..GridLength :
         /\ grid[i].tileId = prev.grid[i].tileId
         /\ grid[i].rot = prev.grid[i].rot

C1_Witness ==
  /\ pc = "decoded"
  /\ Len(prev.grid) = GridLength
  /\ \A i \in 1..GridLength : prev.grid[i].tileId \in CatalogIds /\ prev.grid[i].rot \in Rotations
  /\ \E i \in 1..GridLength : prev.grid[i].rot = 270 /\ prev.grid[i].tileId # blank
  /\ grid = prev.grid

\* C2: on the initial load, a layout parameter that is absent, that atob
\* rejects, or that decodes to a number of cells other than 21 leaves the
\* default grid of 21 blank cells, the tool, the swap anchor and the rest of
\* the state as constructed, and the editor is ready; only a token of exactly
\* 21 cells replaces the grid.
C2_LoadFallback ==
  last.kind = "mount" =>
    /\ pc = "ready"
    /\ TokenCells(url) # GridLength =>
         /\ grid = makeEmptyGrid
         /\ tool = "paint"
         /\ swapAnchor = Null
         /\ selectedTileId = TILES[2].id
         /\ modifierTool = "null"
    /\ grid # makeEmptyGrid => TokenCells(url) = GridLength

C2_Witness ==
  /\ last.kind = "mount"
  /\ TokenCells(url) = GridLength - 1
  /\ grid = makeEmptyGrid
  /\ pc = "ready"

\* C3: in every reachable state the grid has exactly 21 cells.
C3_GridLength == Len(grid) = GridLength

C3_Witness ==
  /\ steps = MaxSteps
  /\ last.kind = "click"
  /\ prev.grid # makeEmptyGrid
  /\ grid # prev.grid
  /\ Len(grid) = GridLength

\* C4: in every reachable state every cell's rotation is one of
\* {0, 90, 180, 270}, a grid loaded from the URL included.
C4_RotationsValid == \A i \in 1..Len(grid) : grid[i].rot \in Rotations

\* C5: with the swap tool and no modifier, a click on cell i with no anchor
\* pending sets the anchor to i and leaves the grid; a click on another cell j
\* with the anchor pending exchanges the two cells, leaves every other cell
\* and clears the anchor.
C5_SwapToolProtocol ==
  (last.kind = "click" /\ NoModifier(last) /\ prev.tool = "swap") =>
    /\ prev.swapAnchor = Null => (swapAnchor = last.idx /\ grid = prev.grid)
    /\ (prev.swapAnchor # Null /\ prev.swapAnchor # last.idx) =>
         /\ Exchanged(grid, prev.grid, last.idx, prev.swapAnchor)
         /\ swapAnchor = Null

C5_Witness ==
  /\ last.kind = "click"
  /\ NoModifier(last)
  /\ prev.tool = "swap"
  /\ prev.anchorBy = "tool"
  /\ prev.swapAnchor # last.idx
  /\ grid # prev.grid
  /\ grid[last.idx + 1].tileId # grid[prev.swapAnchor + 1].tileId
  /\ grid[last.idx + 1].rot # grid[prev.swapAnchor + 1].rot

\* C6: with an anchor pending on cell i, a click on cell i through the swap
\* tool or through the Ctrl/Cmd branch clears the anchor and changes no cell;
\* the click that set the anchor changed no cell either, so the grid is the
\* one from before the first click.
C6_SwapCancel ==
  (/\ last.kind = "click"
   /\ ~last.shiftKey
   /\ (last.ctrlKey \/ last.metaKey \/ prev.tool = "swap")) =>
    /\ prev.swapAnchor = last.idx => (swapAnchor = Null /\ grid = prev.grid)
    /\ prev.swapAnchor = Null => grid = prev.grid

C6_Witness ==
  /\ last.kind = "click"
  /\ last.ctrlKey
  /\ ~last.shiftKey
  /\ prev.tool = "swap"
  /\ prev.anchorBy = "tool"
  /\ prev.swapAnchor = last.idx
  /\ swapAnchor = Null
  /\ grid = prev.grid
  /\ grid # makeEmptyGrid

\* C7: a click with Shift held rotates the clicked cell by a quarter turn
\* (to (r + 90) mod 360 from a rotation r of {0, 90, 180, 270}) and does
\* nothing else, whatever the tool and the anchor: the tileId, the other
\* cells, the anchor, the tool and the selected tile are unchanged.
C7_ShiftRotates ==
  (last.kind = "click" /\ last.shiftKey) =>
    LET i == last.idx + 1
    IN  /\ Len(grid) = Len(prev.grid)
        /\ grid[i].tileId = prev.grid[i].tileId
        /\ (grid[i].rot - prev.grid[i].rot - 90) % 360 = 0
        /\ prev.grid[i].rot \in Rotations => grid[i].rot = (prev.grid[i].rot + 90) % 360
        /\ \A k \in 1..Len(grid) : k # i => grid[k] = prev.grid[k]
        /\ swapAnchor = prev.swapAnchor
        /\ anchorBy = prev.anchorBy
        /\ tool = prev.tool
        /\ selectedTileId = prev.selectedTileId

C7_Witness ==
  /\ last.kind = "click"
  /\ last.shiftKey
  /\ prev.tool = "paint"
  /\ prev.swapAnchor # Null
  /\ prev.grid[last.idx + 1].tileId # prev.selectedTileId
  /\ grid[last.idx + 1].rot = 90

\* One step of the swap protocol on the cell of the last click: set the
\* anchor, cancel it, or exchange the two cells; the tool stays.
SwapProtocolStep ==
  /\ tool = prev.tool
  /\ \/ prev.swapAnchor = Null /\ swapAnchor = last.idx /\ grid = prev.grid
     \/ prev.swapAnchor = last.idx /\ swapAnchor = Null /\ grid = prev.grid
     \/ /\ prev.swapAnchor \notin {Null, last.idx}
        /\ swapAnchor = Null
        /\ Exchanged(grid, prev.grid, last.idx, prev.swapAnchor)

\* C8 as claimed: every click with Ctrl or Cmd set runs one step of the swap
\* protocol, for every tool.
C8_CtrlAlwaysSwaps ==
  (last.kind = "click" /\ (last.ctrlKey \/ last.metaKey)) => SwapProtocolStep

\* C8 as amended: every click with Ctrl or Cmd set and Shift not set runs one
\* step of the swap protocol, for every tool, on the anchor the swap tool
\* uses: it completes or cancels an anchor a swap-tool click set, and a
\* swap-tool click completes or cancels an anchor it set.
C8_CtrlSwapsUnlessShift ==
  /\ (last.kind = "click" /\ ~last.shiftKey /\ (last.ctrlKey \/ last.metaKey)) =>
       SwapProtocolStep
  /\ (last.kind = "click" /\ NoModifier(last) /\ prev.tool = "swap"
        /\ prev.anchorBy = "modifier") =>
       SwapProtocolStep /\ swapAnchor = Null

C8_Witness ==
  /\ last.kind = "click"
  /\ last.metaKey
  /\ ~last.ctrlKey
  /\ ~last.shiftKey
  /\ prev.anchorBy = "tool"
  /\ prev.swapAnchor \notin {Null, last.idx}
  /\ grid # prev.grid
  /\ swapAnchor = Null

\* C9: every action that sets the tool (a tool button, a P / S / R shortcut
\* outside a text input, a palette button) leaves no swap anchor pending.
C9_ToolSetClearsAnchor ==
  (\/ last.kind \in {"tool", "palette"}
   \/ (last.kind = "keydown" /\ ~last.inInput /\ toLowerCase(last.key) \in {"p", "s", "r"})) =>
    swapAnchor = Null

\* C10: a key-up that leaves no modifier held sets the modifier-tool indicator
\* to null and cancels a pending swap anchor, and changes neither the grid
\* nor the tool.
C10_KeyUpClears ==
  (last.kind = "keyup" /\ NoModifier(last)) =>
    /\ modifierTool = "null"
    /\ swapAnchor = Null
    /\ grid = prev.grid
    /\ tool = prev.tool
    /\ selectedTileId = prev.selectedTileId

C10_Witness ==
  /\ last.kind = "keyup"
  /\ NoModifier(last)
  /\ last.key = "Control"
  /\ prev.anchorBy = "modifier"
  /\ prev.swapAnchor # Null
  /\ prev.modifierTool = "swap"
  /\ swapAnchor = Null

\* C11: with the paint tool and no modifier on the click, the clicked cell
\* becomes {tileId: the selected tile, rot: 0} whatever it was, and every
\* other cell, the tool, the selected tile and the swap anchor are unchanged.
C11_PaintFrame ==
  (last.kind = "click" /\ NoModifier(last) /\ prev.tool = "paint") =>
    LET i == last.idx + 1
    IN  /\ Len(grid) = Len(prev.grid)
        /\ grid[i] = [tileId |-> prev.selectedTileId, rot |-> 0]
        /\ \A k \in 1..Len(grid) : k # i => grid[k] = prev.grid[k]
        /\ tool = prev.tool
        /\ selectedTileId = prev.selectedTileId
        /\ swapAnchor = prev.swapAnchor
        /\ anchorBy = prev.anchorBy

C11_Witness ==
  /\ last.kind = "click"
  /\ NoModifier(last)
  /\ prev.tool = "paint"
  /\ prev.swapAnchor # Null
  /\ prev.grid[last.idx + 1].rot = 90
  /\ prev.grid[last.idx + 1].tileId # prev.selectedTileId
  /\ grid[last.idx + 1].rot = 0
  /\ swapAnchor = prev.swapAnchor

\* The last event was a click that rotates: Shift held, or the rotate tool
\* with no modifier.
RotateClick ==
  last.kind = "click" /\ (last.shiftKey \/ (NoModifier(last) /\ prev.tool = "rotate"))

RECURSIVE RotateTimes(_, _, _)
RotateTimes(st, idx, n) == IF n = 0 THEN st ELSE RotateTimes(applyRotate(st, idx), idx, n - 1)

\* C12: one rotate sets the rotation r of the clicked cell to exactly
\* (r + 90) mod 360 and leaves its tileId and the other cells; and from every
\* reachable grid, four rotates of one cell give back the grid.
C12_RotateQuarterTurns ==
  /\ RotateClick =>
       LET i == last.idx + 1
       IN  /\ Len(grid) = Len(prev.grid)
           /\ grid[i].rot = (prev.grid[i].rot + 90) % 360
           /\ grid[i].tileId = prev.grid[i].tileId
           /\ \A k \in 1..Len(grid) : k # i => grid[k] = prev.grid[k]
  /\ \A idx \in ClickCells : RotateTimes(Cur, idx, 4).grid = grid

\* C12 for the cells whose rotation is one of {0, 90, 180, 270}.
C12_RotateValidCells ==
  /\ (RotateClick /\ prev.grid[last.idx + 1].rot \in Rotations) =>
       LET i == last.idx + 1
       IN  /\ grid[i].rot = (prev.grid[i].rot + 90) % 360
           /\ grid[i].tileId = prev.grid[i].tileId
           /\ \A k \in 1..Len(grid) : k # i => grid[k] = prev.grid[k]
  /\ \A idx \in ClickCells :
       grid[idx + 1].rot \in Rotations => RotateTimes(Cur, idx, 4).grid = grid

\* g and h hold the same cells, each as many times.
SameCells(g, h) ==
  /\ Len(g) = Len(h)
  /\ \A k \in 1..Len(g) :
       Cardinality({m \in 1..Len(g) : g[m] = g[k]}) = Cardinality({m \in 1..Len(h) : h[m] = g[k]})

\* The clicks that run the swap protocol: the plain click of the swap tool
\* and the clicks with Ctrl, Cmd or both.
SwapClicks ==
  {[Event("click") EXCEPT !.ctrlKey = ct, !.metaKey = me] : ct \in BOOLEAN, me \in BOOLEAN}

\* The two clicks of the swap protocol on (i, j).
SwapPair(st, i, j, event) == handleCellClick(handleCellClick(st, i, event), j, event)

\* The last click completed a swap.
SwapCompleted ==
  /\ last.kind = "click"
  /\ ~last.shiftKey
  /\ (last.ctrlKey \/ last.metaKey \/ prev.tool = "swap")
  /\ prev.swapAnchor \notin {Null, last.idx}

\* C13: a completed swap keeps the multiset of cells, and the swap protocol
\* run again on the same two cells gives back the grid from before the swap;
\* from every reachable grid, with no anchor pending when the next event
\* arrives, the protocol on two distinct cells (i, j) exchanges the two cells
\* and run twice gives back the grid, through the swap tool and through
\* Ctrl/Cmd.
C13_SwapInvolution ==
  /\ SwapCompleted =>
       /\ SameCells(grid, prev.grid)
       /\ swapAnchor = Null
       /\ LET again == SwapPair(Cur, prev.swapAnchor, last.idx, last)
          IN  again.grid = prev.grid /\ again.swapAnchor = Null
  /\ (last.kind = "none" /\ swapAnchor = Null) =>
       \A i \in ClickCells, j \in ClickCells, event \in SwapClicks :
         (i # j /\ (tool = "swap" \/ event.ctrlKey \/ event.metaKey)) =>
           LET once == SwapPair(Cur, i, j, event)
           IN  /\ Exchanged(once.grid, grid, i, j)
               /\ once.swapAnchor = Null
               /\ SwapPair(once, i, j, event).grid = grid

C13_Witness ==
  /\ SwapCompleted
  /\ NoModifier(last)
  /\ grid # prev.grid
  /\ grid[last.idx + 1].tileId # prev.grid[last.idx + 1].tileId
  /\ SwapPair(Cur, prev.swapAnchor, last.idx, last).grid = prev.grid
  /\ SwapPair(Cur, prev.swapAnchor, last.idx, last).grid # grid

\* No timeout is pending and the layout parameter of the URL is the token of
\* the current grid.
UrlSynced == Len(timeouts) = 0 /\ url = encodeGridToUrl(grid)

\* C14: when the grid stops changing (after the load or after the last
\* change), the debounce timer eventually fires, and from then on no timeout
\* is pending and the layout parameter of the URL equals encodeGridToUrl of
\* the current grid.
C14_DebounceLive == (<>[][grid' = grid]_vars) => <>[]UrlSynced

C14_Witness ==
  /\ last.kind = "timer"
  /\ UrlSynced
  /\ grid # makeEmptyGrid
  /\ prev.url # url
  /\ steps = MaxSteps

\* C15: the PNG export and the share, on every outcome (no render target, a
\* rasterization that throws, a download; the clipboard written, rejected or
\* absent, the fallback copying, failing or throwing), tell the user the
\* outcome and leave the grid, the tool, the selected tile, the swap anchor,
\* the indicator, the URL and the pending timeout; the editor is ready for
\* the next event, and with the handler returned every operation is enabled.
C15_ExportShareFrame ==
  /\ last.kind \in {"export", "share"} =>
       /\ grid = prev.grid
       /\ tool = prev.tool
       /\ selectedTileId = prev.selectedTileId
       /\ swapAnchor = prev.swapAnchor
       /\ modifierTool = prev.modifierTool
       /\ url = prev.url
       /\ timeouts = prev.timeouts
       /\ last.out # ""
       /\ pc = "ready"
       /\ ENABLED Idle
  /\ (pc = "ready" /\ last.kind = "none" /\ steps < MaxSteps) =>
       /\ ENABLED CellClick
       /\ ENABLED ToolButton
       /\ ENABLED PaletteButton
       /\ ENABLED ClearButton
       /\ ENABLED RandomButton
       /\ ENABLED ExportButton
       /\ ENABLED ShareButton
       /\ ENABLED KeyDown
       /\ ENABLED KeyUp

C15_Witness ==
  /\ last.kind = "share"
  /\ last.env = <<"absent", "throws">>
  /\ last.out = "Copy failed. Please copy this URL manually"
  /\ prev.swapAnchor # Null
  /\ swapAnchor = prev.swapAnchor
  /\ grid = prev.grid
  /\ grid # makeEmptyGrid
  /\ steps < MaxSteps

\* The tool of a shortcut key.
ShortcutTool(k) == IF k = "p" THEN "paint" ELSE IF k = "s" THEN "swap" ELSE "rotate"

\* C16: a key-down of P, S or R (either case) whose target is a text input
\* or a textarea changes neither the tool nor the swap anchor (nor the grid
\* and the selected tile); with any other target it sets the tool to paint,
\* swap or rotate.
C16_ShortcutsSuppressedInInputs ==
  (last.kind = "keydown" /\ toLowerCase(last.key) \in {"p", "s", "r"}) =>
    IF last.inInput
    THEN /\ tool = prev.tool
         /\ swapAnchor = prev.swapAnchor
         /\ grid = prev.grid
         /\ selectedTileId = prev.selectedTileId
    ELSE tool = ShortcutTool(toLowerCase(last.key))

C16_Witness ==
  /\ last.kind = "keydown"
  /\ last.key = "s"
  /\ last.inInput
  /\ prev.tool = "paint"
  /\ prev.swapAnchor # Null
  /\ tool = "paint"
  /\ swapAnchor = prev.swapAnchor

\* C17: at most one URL update is pending, the pending callback closes over
\* the current grid, and when the timer fires the token it writes is
\* encodeGridToUrl of the grid that is current at the write.
C17_NoStaleWrite ==
  /\ Len(timeouts) <= 1
  /\ Len(timeouts) = 1 => timeouts[1].grid = grid
  /\ last.kind = "timer" =>
       /\ grid = prev.grid
       /\ Len(prev.timeouts) = 1
       /\ url = encodeGridToUrl(grid)

\* The timer fires after a change that replaced a pending update.
C17_Witness ==
  /\ last.kind = "timer"
  /\ steps = MaxSteps
  /\ grid # makeEmptyGrid
  /\ url # prev.url
  /\ prev.url # NullStr
  /\ decodeUrlToGrid(QueryValue(prev.url)) # NullGrid
  /\ decodeUrlToGrid(QueryValue(prev.url)) # grid
  /\ url = encodeGridToUrl(grid)

\* The events the claim lets end a pending anchor: a click that completes or
\* cancels the swap, a tool selection (a tool button, a palette button, a
\* P / S / R shortcut outside a text input) and the release of a modifier key.
AnchorMayEnd ==
  \/ last.kind = "click" /\ ~last.shiftKey
       /\ (last.ctrlKey \/ last.metaKey \/ prev.tool = "swap")
  \/ last.kind \in {"tool", "palette"}
  \/ last.kind = "keydown" /\ ~last.inInput /\ toLowerCase(last.key) \in {"p", "s", "r"}
  \/ last.kind = "keyup" /\ last.key \in {"Shift", "Control", "Meta"}

\* C18: an anchor set by a swap-tool click with no modifier stays set over
\* every event other than a completing or cancelling click, a tool selection
\* and the release of a modifier key; the press and the release of another
\* key leave it.
C18_ToolAnchorStays ==
  (/\ prev.swapAnchor # Null
   /\ prev.anchorBy = "tool"
   /\ last.kind # "none"
   /\ ~AnchorMayEnd) =>
    swapAnchor = prev.swapAnchor

\* The events of the keyboard and of the cells, and the handler of each.
InputEvents ==
  KeyDownEvents \cup KeyUpEvents
  \cup {[Event("click") EXCEPT !.idx = idx, !.shiftKey = sh, !.ctrlKey = ct, !.metaKey = me] :
          idx \in ClickCells, sh \in BOOLEAN, ct \in BOOLEAN, me \in BOOLEAN}

Dispatch(st, event) ==
  IF event.kind = "click" THEN handleCellClick(st, event.idx, event)
  ELSE IF event.kind = "keydown" THEN handleKeyDown(st, event)
  ELSE handleKeyUp(st, event)

\* The indicator that goes with the modifier flags of an event.
IndicatorOf(event) ==
  IF event.shiftKey THEN "rotate"
  ELSE IF event.ctrlKey \/ event.metaKey THEN "swap"
  ELSE "null"

\* The last click rotated its cell and did nothing else.
RotatePerformed ==
  /\ grid = applyRotate(prev, last.idx).grid
  /\ swapAnchor = prev.swapAnchor
  /\ tool = prev.tool

\* C19, the indicator after the key events: after a key-down or a key-up the
\* indicator is rotate if Shift is set, else swap if Ctrl or Cmd is set, else
\* null after a key-up and as before after a key-down.
C19_IndicatorFollowsKeys ==
  last.kind \in {"keydown", "keyup"} =>
    modifierTool = IF IndicatorOf(last) # "null" THEN IndicatorOf(last)
                   ELSE IF last.kind = "keyup" THEN "null"
                   ELSE prev.modifierTool

\* C19, the clicks as claimed: a click while the indicator is rotate rotates
\* the cell, and a click while it is swap runs one step of the swap protocol.
C19_ClickAgreesWithIndicator ==
  last.kind = "click" =>
    /\ prev.modifierTool = "rotate" => RotatePerformed
    /\ prev.modifierTool = "swap" => SwapProtocolStep

\* C19, the clicks as amended: a click is dispatched on its own modifier
\* flags, so it does what the indicator shows when its flags are those the
\* indicator was set from.
C19_ClickFollowsItsFlags ==
  last.kind = "click" =>
    /\ IndicatorOf(last) = "rotate" => RotatePerformed
    /\ IndicatorOf(last) = "swap" => SwapProtocolStep
    /\ prev.modifierTool = IndicatorOf(last) =>
         /\ prev.modifierTool = "rotate" => RotatePerformed
         /\ prev.modifierTool = "swap" => SwapProtocolStep

\* C19, no handler reads the indicator: from every reachable state that goes
\* on to handle an event, the state with another value of the indicator
\* gives, for every event, the same grid, tool, swap anchor and selected tile.
C19_IndicatorNotRead ==
  (pc = "ready" /\ last.kind = "none" /\ steps < MaxSteps) =>
    \A m \in {"null", "rotate", "swap"} \ {modifierTool}, event \in InputEvents :
      LET a == Dispatch(Cur, event)
          b == Dispatch([Cur EXCEPT !.modifierTool = m], event)
      IN  /\ a.grid = b.grid
          /\ a.tool = b.tool
          /\ a.swapAnchor = b.swapAnchor
          /\ a.selectedTileId = b.selectedTileId
          /\ a.gridSet = b.gridSet

\* C19 as claimed: the indicator follows the modifier flags of the key
\* events, every click does what the indicator shows, and no handler reads
\* the indicator.
C19_IndicatorAgrees ==
  /\ C19_IndicatorFollowsKeys
  /\ C19_ClickAgreesWithIndicator
  /\ C19_IndicatorNotRead

\* C19 as amended: the indicator follows the modifier flags of the key
\* events, a click is dispatched on its own modifier flags and agrees with
\* the indicator when these are the flags the indicator was set from, and no
\* handler reads the indicator.
C19_IndicatorHighlightOnly ==
  /\ C19_IndicatorFollowsKeys
  /\ C19_ClickFollowsItsFlags
  /\ C19_IndicatorNotRead

C19_Witness ==
  /\ last.kind = "click"
  /\ last.shiftKey
  /\ prev.modifierTool = "rotate"
  /\ prev.tool = "paint"
  /\ prev.swapAnchor # Null
  /\ RotatePerformed
  /\ grid # prev.grid

\* C20: Clear leaves 21 cells {tileId: blank, rot: 0}, Randomize 21 cells of
\* catalog tiles with rotations of {0, 90, 180, 270}; both leave the tool, the
\* selected tile, the swap anchor and the indicator, so a pending anchor is
\* still pending and the next swap click on another cell exchanges two cells
\* of the new grid.
C20_ClearRandomFrame ==
  /\ last.kind = "clear" =>
       /\ Len(grid) = GridLength
       /\ \A k \in 1..Len(grid) : grid[k] = [tileId |-> blank, rot |-> 0]
  /\ last.kind = "random" =>
       /\ Len(grid) = GridLength
       /\ \A k \in 1..Len(grid) : grid[k].tileId \in CatalogIds /\ grid[k].rot \in Rotations
  /\ last.kind \in {"clear", "random"} =>
       /\ tool = prev.tool
       /\ selectedTileId = prev.selectedTileId
       /\ swapAnchor = prev.swapAnchor
       /\ anchorBy = prev.anchorBy
       /\ modifierTool = prev.modifierTool
       /\ swapAnchor # Null =>
            \A j \in ClickCells \ {swapAnchor}, event \in SwapClicks :
              (tool = "swap" \/ event.ctrlKey \/ event.metaKey) =>
                LET n == handleCellClick(Cur, j, event)
                IN  Exchanged(n.grid, grid, j, swapAnchor) /\ n.swapAnchor = Null

C20_Witness ==
  /\ last.kind = "random"
  /\ prev.swapAnchor # Null
  /\ prev.anchorBy = "tool"
  /\ tool = "swap"
  /\ swapAnchor = prev.swapAnchor
  /\ grid # prev.grid
  /\ \E j \in ClickCells :
       handleCellClick(Cur, j, Event("click")).grid \notin {grid, prev.grid}

====
